---- MODULE Spec2Model ----
(***************************************************************************)
(* Model of packages/bytebot-agent/src/vllm/vllm.service.ts: the message   *)
(* translation of VllmService (formatMessagesForVllm, getToolName,         *)
(* formatVllmResponse) and the request life cycle of generateMessage.      *)
(*                                                                         *)
(* Strings are sequences of atoms (an atom is a character or an opaque run *)
(* of characters); "" is <<>>, concatenation is \o.  The atom "AbortError" *)
(* stands for that substring, so String.prototype.includes('AbortError')   *)
(* is membership of the atom.  The atom "\"" is the double quote, the one  *)
(* character of the alphabet that JSON.stringify escapes.                  *)
(***************************************************************************)
EXTENDS Integers, Sequences, FiniteSets, TLC

VARIABLES
    pc,                 \* position of the call under study
    messages,           \* the conversation history (Message[])
    systemPrompt,       \* the systemPrompt argument
    vllmMessages,       \* what formatMessagesForVllm returned
    content,            \* choices[0].message.content handed to formatVllmResponse
    contentBlocks,      \* what formatVllmResponse returned, or the error it threw
    hasSignal,          \* generateMessage was given an AbortSignal
    signalAborted,      \* signal.aborted of the caller's AbortSignal
    listening,          \* the 'abort' listener of line 133 is registered
    controllerAborted,  \* controller.signal.aborted of the local AbortController
    abortedBeforeReturn,\* the caller's signal was aborted when fetch settled
    response,           \* the Response fetch resolved with
    thrown,             \* the error raised inside the try block
    outcome             \* how generateMessage settled

vars == <<pc, messages, systemPrompt, vllmMessages, content, contentBlocks,
          hasSignal, signalAborted, listening, controllerAborted,
          abortedBeforeReturn, response, thrown, outcome>>

(***************************************************************************)
(* Bounds of the model.                                                    *)
(***************************************************************************)
MaxMsgs == 2
MaxBlocks == 2
MaxActionMsgs == 1
MaxWrappers == 2
MaxLeaves == 3
MaxRoundTripBlocks == 3
MaxParts == 3

(***************************************************************************)
(* JSON values.  Every value has the same four fields so that any two can  *)
(* be compared: j is the kind, n a number, s a string, kv the members of   *)
(* an object (k, v) or the items of an array (k is unused).                *)
(***************************************************************************)
JNull == [j |-> "null", n |-> 0, s |-> <<>>, kv |-> <<>>]
JNum(n) == [j |-> "num", n |-> n, s |-> <<>>, kv |-> <<>>]
JStr(s) == [j |-> "str", n |-> 0, s |-> s, kv |-> <<>>]
JBool(b) == [j |-> "bool", n |-> IF b THEN 1 ELSE 0, s |-> <<>>, kv |-> <<>>]
JObj(kv) == [j |-> "obj", n |-> 0, s |-> <<>>, kv |-> kv]
JArr(items) == [j |-> "arr", n |-> 0, s |-> <<>>,
                kv |-> [i \in 1..Len(items) |-> [k |-> <<>>, v |-> items[i]]]]
KV(k, v) == [k |-> k, v |-> v]

Digits == <<"0", "1", "2", "3", "4", "5", "6", "7", "8", "9">>
IsDigit(c) == \E d \in 1..Len(Digits) : Digits[d] = c
DigitValue(c) == (CHOOSE d \in 1..Len(Digits) : Digits[d] = c) - 1

RECURSIVE Concat(_)
Concat(ss) == IF ss = <<>> THEN <<>> ELSE Head(ss) \o Concat(Tail(ss))

RECURSIVE Spaces(_)
Spaces(k) == IF k = 0 THEN <<>> ELSE <<" ">> \o Spaces(k - 1)

\* Quote of JSON.stringify: the string between double quotes, a double quote
\* or a backslash inside it preceded by a backslash, a line feed written \n.
RECURSIVE EscapeString(_)
EscapeString(s) ==
    IF s = <<>> THEN <<>>
    ELSE (CASE Head(s) \in {"\"", "\\"} -> <<"\\", Head(s)>>
            [] Head(s) = "\n" -> <<"\\", "n">>
            [] OTHER -> <<Head(s)>>)
         \o EscapeString(Tail(s))

QuoteString(s) == <<"\"">> \o EscapeString(s) \o <<"\"">>

\* JSON.stringify(value, null, indent) at nesting depth d; indent = 0 is the
\* compact form JSON.stringify(value).
RECURSIVE Stringify(_, _, _)
Stringify(v, indent, d) ==
    LET nl(k) == IF indent = 0 THEN <<>> ELSE <<"\n">> \o Spaces(indent * k)
        colon == IF indent = 0 THEN <<":">> ELSE <<":", " ">>
        member(i) ==
            (IF i > 1 THEN <<",">> ELSE <<>>) \o nl(d + 1)
            \o (IF v.j = "obj" THEN QuoteString(v.kv[i].k) \o colon ELSE <<>>)
            \o Stringify(v.kv[i].v, indent, d + 1)
        open == IF v.j = "obj" THEN "{" ELSE "["
        close == IF v.j = "obj" THEN "}" ELSE "]"
    IN  CASE v.j = "null" -> <<"null">>
          [] v.j = "num" -> <<Digits[v.n + 1]>>
          [] v.j = "bool" -> IF v.n = 1 THEN <<"true">> ELSE <<"false">>
          [] v.j = "str" -> QuoteString(v.s)
          [] OTHER ->
                IF v.kv = <<>> THEN <<open, close>>
                ELSE <<open>> \o Concat([i \in 1..Len(v.kv) |-> member(i)])
                     \o nl(d) \o <<close>>

JSONstringify(v) == Stringify(v, 0, 0)
JSONstringifyPretty(v) == Stringify(v, 2, 0)

(***************************************************************************)
(* JSON.parse: a recursive-descent parser of the text Stringify writes and *)
(* of any other atom sequence, which it rejects (SyntaxError).             *)
(***************************************************************************)
ParseFail == [ok |-> FALSE, v |-> JNull, next |-> 0]

RECURSIVE SkipWs(_, _)
SkipWs(t, i) ==
    IF i <= Len(t) /\ t[i] \in {" ", "\n"} THEN SkipWs(t, i + 1) ELSE i

\* The characters of a string literal from position i (after the opening
\* quote) up to the closing quote.
RECURSIVE ParseString(_, _, _)
ParseString(t, i, acc) ==
    IF i > Len(t) THEN [ok |-> FALSE, s |-> <<>>, next |-> 0]
    ELSE CASE t[i] = "\"" -> [ok |-> TRUE, s |-> acc, next |-> i + 1]
           [] t[i] = "\n" -> [ok |-> FALSE, s |-> <<>>, next |-> 0]
           [] t[i] = "\\" ->
                IF i + 1 > Len(t) THEN [ok |-> FALSE, s |-> <<>>, next |-> 0]
                ELSE CASE t[i + 1] \in {"\"", "\\"} ->
                            ParseString(t, i + 2, Append(acc, t[i + 1]))
                       [] t[i + 1] = "n" -> ParseString(t, i + 2, Append(acc, "\n"))
                       [] OTHER -> [ok |-> FALSE, s |-> <<>>, next |-> 0]
           [] OTHER -> ParseString(t, i + 1, Append(acc, t[i]))

RECURSIVE ParseValue(_, _)
RECURSIVE ParseMembers(_, _, _, _)
ParseValue(t, i0) ==
    LET i == SkipWs(t, i0)
    IN  IF i > Len(t) THEN ParseFail
        ELSE CASE t[i] = "null" -> [ok |-> TRUE, v |-> JNull, next |-> i + 1]
               [] t[i] \in {"true", "false"} ->
                    [ok |-> TRUE, v |-> JBool(t[i] = "true"), next |-> i + 1]
               [] IsDigit(t[i]) ->
                    [ok |-> TRUE, v |-> JNum(DigitValue(t[i])), next |-> i + 1]
               [] t[i] = "\"" ->
                    LET r == ParseString(t, i + 1, <<>>)
                    IN  IF r.ok THEN [ok |-> TRUE, v |-> JStr(r.s), next |-> r.next]
                        ELSE ParseFail
               [] t[i] \in {"{", "["} ->
                    LET kind == IF t[i] = "{" THEN "obj" ELSE "arr"
                        close == IF t[i] = "{" THEN "}" ELSE "]"
                        j == SkipWs(t, i + 1)
                    IN  IF j <= Len(t) /\ t[j] = close
                        THEN [ok |-> TRUE,
                              v |-> [j |-> kind, n |-> 0, s |-> <<>>, kv |-> <<>>],
                              next |-> j + 1]
                        ELSE ParseMembers(t, i + 1, <<>>, kind)
               [] OTHER -> ParseFail

\* One member (object) or item (array) from position i, then a comma and the
\* next one, or the closing bracket.
ParseMembers(t, i, acc, kind) ==
    LET close == IF kind = "obj" THEN "}" ELSE "]"
        k == SkipWs(t, i)
        key == IF kind = "obj" /\ k <= Len(t) /\ t[k] = "\""
               THEN ParseString(t, k + 1, <<>>)
               ELSE [ok |-> kind = "arr", s |-> <<>>, next |-> i]
        c == SkipWs(t, key.next)
        colonOk == kind = "arr" \/ (c <= Len(t) /\ t[c] = ":")
        val == IF key.ok /\ colonOk
               THEN ParseValue(t, IF kind = "obj" THEN c + 1 ELSE i)
               ELSE ParseFail
        e == SkipWs(t, val.next)
        acc2 == Append(acc, KV(key.s, val.v))
    IN  IF ~val.ok \/ e > Len(t) THEN ParseFail
        ELSE CASE t[e] = "," -> ParseMembers(t, e + 1, acc2, kind)
               [] t[e] = close ->
                    [ok |-> TRUE,
                     v |-> [j |-> kind, n |-> 0, s |-> <<>>, kv |-> acc2],
                     next |-> e + 1]
               [] OTHER -> ParseFail

JSONparse(t) ==
    LET r == ParseValue(t, 1)
    IN  IF r.ok /\ SkipWs(t, r.next) > Len(t)
        THEN [ok |-> TRUE, v |-> r.v]
        ELSE [ok |-> FALSE, v |-> JNull]

(***************************************************************************)
(* The content blocks of @bytebot/shared (MessageContentBlock) and the     *)
(* messages of the history (Message of @prisma/client).                    *)
(***************************************************************************)
TextContentBlock(text) == [type |-> "text", text |-> text]
ImageContentBlock(mediaType, data) ==
    [type |-> "image", source |-> [media_type |-> mediaType, data |-> data]]
ToolUseContentBlock(id, name, input) ==
    [type |-> "tool_use", id |-> id, name |-> name, input |-> input]
ToolResultContentBlock(toolUseId, isError, blocks) ==
    [type |-> "tool_result", tool_use_id |-> toolUseId, is_error |-> isError,
     content |-> blocks]
UserActionContentBlock(blocks) == [type |-> "user_action", content |-> blocks]
ThinkingContentBlock(thinking) == [type |-> "thinking", thinking |-> thinking]
Message(role, blocks) == [role |-> role, content |-> blocks]

isUserActionContentBlock(block) == block.type = "user_action"
isImageContentBlock(block) == block.type = "image"
isComputerToolUseContentBlock(block) == block.type = "tool_use"

\* The object JSON.stringify sees for a content block: its own properties in
\* the order the constructors above list them.
RECURSIVE BlockJson(_)
BlockJson(block) ==
    LET items == JArr([i \in 1..Len(block.content) |-> BlockJson(block.content[i])])
        type == KV(<<"type">>, JStr(<<block.type>>))
    IN  CASE block.type = "text" -> JObj(<<type, KV(<<"text">>, JStr(block.text))>>)
          [] block.type = "image" ->
                JObj(<<type, KV(<<"source">>,
                    JObj(<<KV(<<"media_type">>, JStr(block.source.media_type)),
                           KV(<<"data">>, JStr(block.source.data))>>))>>)
          [] block.type = "tool_use" ->
                JObj(<<type, KV(<<"id">>, JStr(block.id)),
                       KV(<<"name">>, JStr(block.name)), KV(<<"input">>, block.input)>>)
          [] block.type = "tool_result" ->
                JObj(<<type, KV(<<"tool_use_id">>, JStr(block.tool_use_id)),
                       KV(<<"is_error">>, JBool(block.is_error)),
                       KV(<<"content">>, items)>>)
          [] block.type = "user_action" -> JObj(<<type, KV(<<"content">>, items)>>)
          [] OTHER -> JObj(<<type, KV(<<"thinking">>, JStr(block.thinking))>>)

(***************************************************************************)
(* The wire format: parts, and a message content that is a bare string or  *)
(* an array of parts (typeof content === 'string' is kind = "string").     *)
(***************************************************************************)
TextPart(text) == [type |-> "text", text |-> text]
ImageUrlPart(url) == [type |-> "image_url", image_url |-> [url |-> url]]
FunctionCallPart(name, arguments) ==
    [type |-> "function_call", function_call |-> [name |-> name, arguments |-> arguments]]
FunctionResponsePart(name, text) ==
    [type |-> "function_response", function_response |-> [name |-> name, content |-> text]]
StringContent(text) == [kind |-> "string", text |-> text, parts |-> <<>>]
ArrayContent(parts) == [kind |-> "array", text |-> <<>>, parts |-> parts]
VllmMessage(role, wireContent) == [role |-> role, content |-> wireContent]

DataUrl(source) == <<"data:">> \o source.media_type \o <<";base64,">> \o source.data

\* Boolean coercion of a string: '' is falsy.
Truthy(text) == text # <<>>

(***************************************************************************)
(* getToolName (lines 317-340): the name of the first top-level tool_use   *)
(* block with this id in the first message that holds one.                 *)
(***************************************************************************)
IsToolUseWithId(block, tool_use_id) ==
    block.type = "tool_use" /\ block.id = tool_use_id

getToolName(tool_use_id, msgs) ==
    LET holds(i) == \E k \in 1..Len(msgs[i].content) :
                        IsToolUseWithId(msgs[i].content[k], tool_use_id)
        hits == {i \in 1..Len(msgs) : holds(i)}
    IN  IF hits = {} THEN [found |-> FALSE, name |-> <<>>]
        ELSE LET m == CHOOSE i \in hits : \A h \in hits : i <= h
                 blks == msgs[m].content
                 b == CHOOSE k \in 1..Len(blks) :
                        /\ IsToolUseWithId(blks[k], tool_use_id)
                        /\ \A h \in 1..(k - 1) : ~IsToolUseWithId(blks[h], tool_use_id)
             IN  [found |-> TRUE, name |-> blks[b].name]

\* getToolName(...) || 'unknown_tool' (line 287).
ResolvedToolName(tool_use_id, msgs) ==
    LET r == getToolName(tool_use_id, msgs)
    IN  IF r.found /\ Truthy(r.name) THEN r.name ELSE <<"unknown_tool">>

(***************************************************************************)
(* formatMessagesForVllm (lines 180-315).                                  *)
(***************************************************************************)
\* Variant of UserActionLeafParts that records the tool_use blocks only.
UserActionLeafPartsToolOnly(block) ==
    IF block.type = "tool_use"
    THEN <<TextPart(<<"User performed action: ">> \o block.name \o <<"\n">>
                    \o JSONstringifyPretty(block.input))>>
    ELSE <<>>

\* Lines 225-237: the part of one block nested in a user_action block.
UserActionLeafParts(block) ==
    CASE isComputerToolUseContentBlock(block) ->
            <<TextPart(<<"User performed action: ">> \o block.name \o <<"\n">>
                       \o JSONstringifyPretty(block.input))>>
      [] isImageContentBlock(block) -> <<ImageUrlPart(DataUrl(block.source))>>
      [] OTHER -> <<>>

\* Variant of BlockParts without the break of line 281: the screenshot case
\* falls through to the function_response of line 284.
BlockPartsFallThrough(block, msgs) ==
    CASE block.type = "text" -> <<TextPart(block.text)>>
      [] block.type = "tool_use" ->
            <<FunctionCallPart(block.name, JSONstringify(block.input))>>
      [] block.type = "image" -> <<ImageUrlPart(DataUrl(block.source))>>
      [] block.type = "tool_result" ->
            (IF block.content[1].type = "image"
             THEN <<FunctionResponsePart(<<"screenshot">>, <<"screenshot successful">>),
                    ImageUrlPart(DataUrl(block.content[1].source))>>
             ELSE <<>>)
            \o <<FunctionResponsePart(
                    ResolvedToolName(block.tool_use_id, msgs),
                    JSONstringify(BlockJson(block.content[1])))>>
      [] OTHER -> <<TextPart(JSONstringify(BlockJson(block)))>>

\* Lines 241-299: the parts of one block of a message that is not all
\* user_action.
BlockParts(block, msgs) ==
    CASE block.type = "text" -> <<TextPart(block.text)>>
      [] block.type = "tool_use" ->
            <<FunctionCallPart(block.name, JSONstringify(block.input))>>
      [] block.type = "image" -> <<ImageUrlPart(DataUrl(block.source))>>
      [] block.type = "tool_result" ->
            IF block.content[1].type = "image"
            THEN <<FunctionResponsePart(<<"screenshot">>, <<"screenshot successful">>),
                   ImageUrlPart(DataUrl(block.content[1].source))>>
            ELSE <<FunctionResponsePart(
                     ResolvedToolName(block.tool_use_id, msgs),
                     IF block.is_error
                     THEN JSONstringify(BlockJson(block.content[1]))
                     ELSE JSONstringify(BlockJson(block.content[1])))>>
      [] OTHER -> <<TextPart(JSONstringify(BlockJson(block)))>>

\* Lines 211-301: the parts list of one message.
MessageParts(message, msgs) ==
    LET blks == message.content
    IN  IF \A i \in 1..Len(blks) : isUserActionContentBlock(blks[i])
        THEN LET leaves == Concat([i \in 1..Len(blks) |-> blks[i].content])
             IN  Concat([i \in 1..Len(leaves) |-> UserActionLeafParts(leaves[i])])
        ELSE Concat([i \in 1..Len(blks) |-> BlockParts(blks[i], msgs)])

\* Variant of CollapseContent that tests the length only.
CollapseSinglePart(parts) ==
    IF Len(parts) = 1
    THEN StringContent(IF parts[1].type = "text" THEN parts[1].text ELSE <<>>)
    ELSE ArrayContent(parts)

\* Lines 303-306: the string form for a single text part, else the array.
CollapseContent(parts) ==
    IF Len(parts) = 1 /\ parts[1].type = "text"
    THEN StringContent(parts[1].text)
    ELSE ArrayContent(parts)

\* Lines 308-311.
WireRole(role) == IF role = "USER" THEN "user" ELSE "assistant"

\* Variant of SystemMessages without the test of line 202.
SystemMessagesAlways(prompt) == <<VllmMessage("system", StringContent(prompt))>>

\* Lines 201-207.
SystemMessages(prompt) ==
    IF Truthy(prompt) THEN <<VllmMessage("system", StringContent(prompt))>> ELSE <<>>

\* Variant of formatMessagesForVllm that pushes no wire message for a message
\* without parts.
formatMessagesSkipEmpty(msgs, prompt) ==
    SystemMessages(prompt)
    \o SelectSeq([i \in 1..Len(msgs) |->
                    VllmMessage(WireRole(msgs[i].role),
                                CollapseContent(MessageParts(msgs[i], msgs)))],
                 LAMBDA m : m.content # ArrayContent(<<>>))

formatMessagesForVllm(msgs, prompt) ==
    SystemMessages(prompt)
    \o [i \in 1..Len(msgs) |->
            VllmMessage(WireRole(msgs[i].role),
                        CollapseContent(MessageParts(msgs[i], msgs)))]

(***************************************************************************)
(* formatVllmResponse (lines 345-383).                                     *)
(***************************************************************************)
HasField(part, f) == f \in DOMAIN part

\* The object JSON.stringify sees for a wire part of the response.
PartJson(part) ==
    JObj(<<KV(<<"type">>, JStr(<<part.type>>))>>
         \o (IF HasField(part, "text")
             THEN <<KV(<<"text">>, JStr(part.text))>> ELSE <<>>)
         \o (IF HasField(part, "image_url")
             THEN <<KV(<<"image_url">>,
                       JObj(<<KV(<<"url">>, JStr(part.image_url.url))>>))>>
             ELSE <<>>)
         \o (IF HasField(part, "function_call")
             THEN <<KV(<<"function_call">>,
                       JObj(<<KV(<<"name">>, JStr(part.function_call.name)),
                              KV(<<"arguments">>, JStr(part.function_call.arguments))>>))>>
             ELSE <<>>))

\* uuid(): the identifier generated for the block at position i of one call.
Uuid(i) == <<"uuid-", Digits[i + 1]>>

IsTextPart(part) ==
    part.type = "text" /\ HasField(part, "text") /\ Truthy(part.text)
IsFunctionCallPart(part) ==
    part.type = "function_call" /\ HasField(part, "function_call")

\* Variant of PartBlock whose line 361 tests the type only.
PartBlockAnyText(part, i) ==
    CASE part.type = "text" ->
            TextContentBlock(IF HasField(part, "text") THEN part.text ELSE <<>>)
      [] IsFunctionCallPart(part) ->
            ToolUseContentBlock(Uuid(i), part.function_call.name,
                                JSONparse(part.function_call.arguments).v)
      [] OTHER -> TextContentBlock(JSONstringify(PartJson(part)))

\* Lines 361-381: the block of the part at position i; JSON.parse has
\* succeeded when this is used for a function_call part.
PartBlock(part, i) ==
    CASE IsTextPart(part) -> TextContentBlock(part.text)
      [] IsFunctionCallPart(part) ->
            ToolUseContentBlock(Uuid(i), part.function_call.name,
                                JSONparse(part.function_call.arguments).v)
      [] OTHER -> TextContentBlock(JSONstringify(PartJson(part)))

\* Line 373 throws for the first function_call part, in map order, whose
\* arguments JSON.parse rejects; a text part is taken first (line 361).
ThrowingParts(parts) ==
    {i \in 1..Len(parts) :
        /\ ~IsTextPart(parts[i])
        /\ IsFunctionCallPart(parts[i])
        /\ ~JSONparse(parts[i].function_call.arguments).ok}

\* ok: the blocks returned; else SyntaxError was thrown for the arguments
\* string badArguments.
formatVllmResponse(c) ==
    IF c.kind = "string"
    THEN [ok |-> TRUE, blocks |-> <<TextContentBlock(c.text)>>, badArguments |-> <<>>]
    ELSE IF ThrowingParts(c.parts) = {}
         THEN [ok |-> TRUE,
               blocks |-> [i \in 1..Len(c.parts) |-> PartBlock(c.parts[i], i)],
               badArguments |-> <<>>]
         ELSE LET first == CHOOSE i \in ThrowingParts(c.parts) :
                              \A k \in ThrowingParts(c.parts) : i <= k
              IN  [ok |-> FALSE, blocks |-> <<>>,
                   badArguments |-> c.parts[first].function_call.arguments]

(***************************************************************************)
(* State of a call that has not got that far.                              *)
(***************************************************************************)
NoError == [name |-> "", message |-> <<>>]
NoResponse == [ok |-> FALSE, status |-> <<>>, text |-> <<>>, hasChoices |-> FALSE,
               choices |-> <<>>, hasUsage |-> FALSE,
               usage |-> [prompt_tokens |-> 0, completion_tokens |-> 0,
                          total_tokens |-> 0]]
NoBlocks == [ok |-> TRUE, blocks |-> <<>>, badArguments |-> <<>>]
Pending == [kind |-> "pending", error |-> NoError, contentBlocks |-> <<>>,
            tokenUsage |-> [inputTokens |-> 0, outputTokens |-> 0, totalTokens |-> 0]]

InitCommon ==
    /\ messages = <<>>
    /\ systemPrompt = <<>>
    /\ vllmMessages = <<>>
    /\ content = StringContent(<<>>)
    /\ contentBlocks = NoBlocks
    /\ hasSignal = FALSE
    /\ signalAborted = FALSE
    /\ listening = FALSE
    /\ controllerAborted = FALSE
    /\ abortedBeforeReturn = FALSE
    /\ response = NoResponse
    /\ thrown = NoError
    /\ outcome = Pending

callVars == <<hasSignal, signalAborted, listening, controllerAborted,
              abortedBeforeReturn, response, thrown, outcome>>

TotalBlocks(msgs) == Len(Concat([i \in 1..Len(msgs) |-> msgs[i].content]))

(***************************************************************************)
(* Inputs: tool inputs, blocks and system prompts.                         *)
(***************************************************************************)
ClickInput == JObj(<<KV(<<"x">>, JNum(1)), KV(<<"y">>, JNum(2))>>)
TypeInput == JObj(<<KV(<<"text">>, JStr(<<"say ", "\"", "hi", "\"">>)),
                    KV(<<"keys">>, JArr(<<JStr(<<"a">>), JNull>>))>>)
EmptyInput == JObj(<<>>)
Png == ImageContentBlock(<<"image/png">>, <<"iVBOR">>)
Jpeg == ImageContentBlock(<<"image/jpeg">>, <<"/9j/4">>)
Roles == {"USER", "ASSISTANT"}
Prompts == {<<>>, <<"You are ", "Bytebot">>}

FormatBlocks ==
    { TextContentBlock(<<>>),
      TextContentBlock(<<"hello">>),
      ToolUseContentBlock(<<"t1">>, <<"click_mouse">>, ClickInput),
      ToolUseContentBlock(<<"t2">>, <<>>, EmptyInput),
      Png,
      ToolResultContentBlock(<<"t1">>, FALSE, <<TextContentBlock(<<"done">>)>>),
      ToolResultContentBlock(<<"t2">>, TRUE, <<TextContentBlock(<<"failed">>)>>),
      ToolResultContentBlock(<<"t3">>, FALSE, <<TextContentBlock(<<"done">>)>>),
      ToolResultContentBlock(<<"t1">>, TRUE, <<Png, TextContentBlock(<<"done">>)>>),
      ToolResultContentBlock(<<"t3">>, FALSE, <<Jpeg>>),
      UserActionContentBlock(<<ToolUseContentBlock(<<"u1">>, <<"click_mouse">>, ClickInput), Png>>),
      ThinkingContentBlock(<<"hmm">>) }

(***************************************************************************)
(* SpecFormat: a history of at most MaxMsgs messages and MaxBlocks blocks  *)
(* is built, then formatMessagesForVllm is applied to it.                  *)
(***************************************************************************)
InitFormat == pc = "input" /\ InitCommon

AppendMessage(role) ==
    /\ pc = "input"
    /\ Len(messages) < MaxMsgs
    /\ messages' = Append(messages, Message(role, <<>>))
    /\ UNCHANGED <<pc, systemPrompt, vllmMessages, content, contentBlocks, callVars>>

AppendBlock(block) ==
    /\ pc = "input"
    /\ messages # <<>>
    /\ TotalBlocks(messages) < MaxBlocks
    /\ messages' = [messages EXCEPT ![Len(messages)].content = Append(@, block)]
    /\ UNCHANGED <<pc, systemPrompt, vllmMessages, content, contentBlocks, callVars>>

CallFormat(prompt) ==
    /\ pc = "input"
    /\ systemPrompt' = prompt
    /\ vllmMessages' = formatMessagesForVllm(messages, prompt)
    /\ pc' = "formatted"
    /\ UNCHANGED <<messages, content, contentBlocks, callVars>>

NextFormat ==
    \/ \E role \in Roles : AppendMessage(role)
    \/ \E block \in FormatBlocks : AppendBlock(block)
    \/ \E prompt \in Prompts : CallFormat(prompt)

SpecFormat == InitFormat /\ [][NextFormat]_vars

(***************************************************************************)
(* SpecAction: a history of messages made of user_action blocks only, at   *)
(* most MaxActionMsgs messages, MaxWrappers user_action blocks and         *)
(* MaxLeaves nested blocks in all, then formatMessagesForVllm.             *)
(***************************************************************************)
ActionLeaves ==
    { ToolUseContentBlock(<<"u1">>, <<"click_mouse">>, ClickInput),
      ToolUseContentBlock(<<"u2">>, <<"set_task_status">>, TypeInput),
      Png,
      Jpeg }

AllBlocks(msgs) == Concat([i \in 1..Len(msgs) |-> msgs[i].content])
TotalLeaves(msgs) ==
    Len(Concat([i \in 1..Len(AllBlocks(msgs)) |-> AllBlocks(msgs)[i].content]))

InitAction == pc = "input" /\ InitCommon

NewActionMessage(role) ==
    /\ pc = "input"
    /\ Len(messages) < MaxActionMsgs
    /\ messages' = Append(messages, Message(role, <<>>))
    /\ UNCHANGED <<pc, systemPrompt, vllmMessages, content, contentBlocks, callVars>>

AppendWrapper ==
    /\ pc = "input"
    /\ messages # <<>>
    /\ TotalBlocks(messages) < MaxWrappers
    /\ messages' = [messages EXCEPT
                      ![Len(messages)].content = Append(@, UserActionContentBlock(<<>>))]
    /\ UNCHANGED <<pc, systemPrompt, vllmMessages, content, contentBlocks, callVars>>

AppendLeaf(leaf) ==
    /\ pc = "input"
    /\ messages # <<>>
    /\ messages[Len(messages)].content # <<>>
    /\ TotalLeaves(messages) < MaxLeaves
    /\ LET m == Len(messages)
           w == Len(messages[m].content)
       IN  messages' = [messages EXCEPT ![m].content[w].content = Append(@, leaf)]
    /\ UNCHANGED <<pc, systemPrompt, vllmMessages, content, contentBlocks, callVars>>

NextAction ==
    \/ \E role \in Roles : NewActionMessage(role)
    \/ AppendWrapper
    \/ \E leaf \in ActionLeaves : AppendLeaf(leaf)
    \/ \E prompt \in Prompts : CallFormat(prompt)

SpecAction == InitAction /\ [][NextAction]_vars

(***************************************************************************)
(* Properties of formatMessagesForVllm.                                    *)
(***************************************************************************)
\* Position of the first wire message of the history.
Offset == IF systemPrompt # <<>> THEN 1 ELSE 0
WireOf(i) == vllmMessages[Offset + i]
\* The parts a wire content stands for.
WireParts(c) == IF c.kind = "string" THEN <<TextPart(c.text)>> ELSE c.parts
AllUserAction(message) ==
    \A k \in 1..Len(message.content) : message.content[k].type = "user_action"
ImageFirst(block) == block.type = "tool_result" /\ block.content[1].type = "image"
\* Parts a block of a message that is not all user_action stands for.
PartCount(block) == IF ImageFirst(block) THEN 2 ELSE 1
RECURSIVE PartsBefore(_, _)
PartsBefore(blks, k) ==
    IF k <= 1 THEN 0 ELSE PartsBefore(blks, k - 1) + PartCount(blks[k - 1])
Leaves(message) ==
    Concat([k \in 1..Len(message.content) |-> message.content[k].content])
ExpectedLeafPart(leaf) ==
    IF leaf.type = "tool_use"
    THEN TextPart(<<"User performed action: ">> \o leaf.name \o <<"\n">>
                  \o JSONstringifyPretty(leaf.input))
    ELSE ImageUrlPart(<<"data:">> \o leaf.source.media_type \o <<";base64,">>
                      \o leaf.source.data)

ToolUsesWithId(id) ==
    {b \in {AllBlocks(messages)[k] : k \in 1..Len(AllBlocks(messages))} :
        b.type = "tool_use" /\ b.id = id}
ClaimedToolName(id) ==
    IF ToolUsesWithId(id) = {} THEN <<"unknown_tool">>
    ELSE (CHOOSE b \in ToolUsesWithId(id) : TRUE).name

\* C6: a tool_result block whose first content element is not an image is
\* rendered as a function_response part named after the tool_use block with
\* its tool_use_id, whatever that name, or "unknown_tool" when there is none.
C6_ToolNameResolved ==
    pc = "formatted" =>
        \A i \in 1..Len(messages) : \A k \in 1..Len(messages[i].content) :
            LET block == messages[i].content[k]
                parts == WireParts(WireOf(i).content)
                o == PartsBefore(messages[i].content, k)
            IN  (block.type = "tool_result" /\ ~ImageFirst(block)) =>
                    /\ Len(parts) > o
                    /\ parts[o + 1].type = "function_response"
                    /\ parts[o + 1].function_response.name
                         = ClaimedToolName(block.tool_use_id)

\* C7: a tool_result block whose first content element is an image is rendered
\* as two adjacent parts, function_response "screenshot"/"screenshot
\* successful" then the image_url of that image, whatever its tool_use_id,
\* is_error and further content; every other block is one part.
C7_ScreenshotResult ==
    pc = "formatted" =>
        \A i \in 1..Len(messages) :
            ~AllUserAction(messages[i]) =>
                LET blks == messages[i].content
                    parts == WireParts(WireOf(i).content)
                IN  /\ Len(parts) = PartsBefore(blks, Len(blks) + 1)
                    /\ \A k \in 1..Len(blks) :
                        ImageFirst(blks[k]) =>
                            LET o == PartsBefore(blks, k)
                                src == blks[k].content[1].source
                            IN  /\ parts[o + 1] = FunctionResponsePart(
                                      <<"screenshot">>, <<"screenshot successful">>)
                                /\ parts[o + 2] = ImageUrlPart(
                                      <<"data:">> \o src.media_type
                                      \o <<";base64,">> \o src.data)

C7_Witness ==
    /\ pc = "formatted"
    /\ \E i \in 1..Len(messages) :
        /\ Len(messages[i].content) = 2
        /\ messages[i].content[1].type = "text"
        /\ ImageFirst(messages[i].content[2])
        /\ messages[i].content[2].is_error
        /\ Len(messages[i].content[2].content) = 2
        /\ Len(WireOf(i).content.parts) = 3

\* C8: a non-empty systemPrompt gives a first wire message of role "system"
\* with the prompt as content, and no other system message; an empty one
\* gives no system message.
C8_SystemMessage ==
    pc = "formatted" =>
        /\ systemPrompt # <<>> =>
            /\ vllmMessages # <<>>
            /\ vllmMessages[1] = [role |-> "system", content |-> StringContent(systemPrompt)]
            /\ \A i \in 2..Len(vllmMessages) : vllmMessages[i].role # "system"
        /\ systemPrompt = <<>> =>
            \A i \in 1..Len(vllmMessages) : vllmMessages[i].role # "system"

C8_Witness ==
    /\ pc = "formatted"
    /\ systemPrompt # <<>>
    /\ Len(messages) = 2
    /\ vllmMessages[1].role = "system"

\* C10: after the optional system message there is one wire message per
\* history message, in order, with role "user" for USER and "assistant"
\* otherwise, carrying as many parts as the blocks of that message stand for,
\* also when that is none; a message without tool results is rendered as it
\* would be alone.
C10_OneWireMessagePerMessage ==
    pc = "formatted" =>
        /\ Len(vllmMessages) = Offset + Len(messages)
        /\ \A i \in 1..Len(messages) :
            /\ WireOf(i).role = (IF messages[i].role = "USER" THEN "user" ELSE "assistant")
            /\ Len(WireParts(WireOf(i).content))
                 = (IF AllUserAction(messages[i]) THEN Len(Leaves(messages[i]))
                    ELSE PartsBefore(messages[i].content, Len(messages[i].content) + 1))
            /\ (\A k \in 1..Len(messages[i].content) :
                    messages[i].content[k].type # "tool_result")
                => <<WireOf(i)>> = formatMessagesForVllm(<<messages[i]>>, <<>>)

C10_Witness ==
    /\ pc = "formatted"
    /\ Len(messages) = 2
    /\ messages[1].role = "ASSISTANT"
    /\ messages[2].role = "USER"
    /\ messages[1].content = <<>>
    /\ Len(messages[2].content) = 2
    /\ Len(vllmMessages) = 3

(***************************************************************************)
(* SpecRoundTrip: one message of at most MaxRoundTripBlocks text and       *)
(* tool_use blocks is rendered by formatMessagesForVllm and its wire       *)
(* content is handed to formatVllmResponse.                                *)
(***************************************************************************)
RoundTripBlocks ==
    { TextContentBlock(<<>>),
      TextContentBlock(<<"hello">>),
      ToolUseContentBlock(<<"t1">>, <<"click_mouse">>, ClickInput),
      ToolUseContentBlock(<<"t2">>, <<"type_text">>, TypeInput),
      ToolUseContentBlock(<<"t3">>, <<>>, JNull) }

InitRoundTrip ==
    /\ pc = "input"
    /\ \E role \in Roles : messages = <<Message(role, <<>>)>>
    /\ systemPrompt = <<>>
    /\ vllmMessages = <<>>
    /\ content = StringContent(<<>>)
    /\ contentBlocks = NoBlocks
    /\ hasSignal = FALSE
    /\ signalAborted = FALSE
    /\ listening = FALSE
    /\ controllerAborted = FALSE
    /\ abortedBeforeReturn = FALSE
    /\ response = NoResponse
    /\ thrown = NoError
    /\ outcome = Pending

AppendRoundTripBlock(block) ==
    /\ pc = "input"
    /\ Len(messages[1].content) < MaxRoundTripBlocks
    /\ messages' = [messages EXCEPT ![1].content = Append(@, block)]
    /\ UNCHANGED <<pc, systemPrompt, vllmMessages, content, contentBlocks, callVars>>

ParseWireContent ==
    /\ pc = "formatted"
    /\ content' = vllmMessages[Len(vllmMessages)].content
    /\ contentBlocks' = formatVllmResponse(content')
    /\ pc' = "parsed"
    /\ UNCHANGED <<messages, systemPrompt, vllmMessages, callVars>>

NextRoundTrip ==
    \/ \E block \in RoundTripBlocks : AppendRoundTripBlock(block)
    \/ \E prompt \in Prompts : CallFormat(prompt)
    \/ ParseWireContent

SpecRoundTrip == InitRoundTrip /\ [][NextRoundTrip]_vars

\* C3: rendering a sequence of text and tool_use blocks and parsing the wire
\* content back gives as many blocks, in order, each text block with the same
\* text and each tool_use block with the same name and input.
C3_RoundTrip ==
    pc = "parsed" =>
        LET blks == messages[1].content
            back == contentBlocks.blocks
        IN  /\ contentBlocks.ok
            /\ Len(back) = Len(blks)
            /\ \A k \in 1..Len(blks) :
                /\ back[k].type = blks[k].type
                /\ blks[k].type = "text" => back[k].text = blks[k].text
                /\ blks[k].type = "tool_use" =>
                    back[k].name = blks[k].name /\ back[k].input = blks[k].input

(***************************************************************************)
(* SpecParse: a response content, a string or at most MaxParts parts, is   *)
(* handed to formatVllmResponse.                                           *)
(***************************************************************************)
ResponseParts ==
    { TextPart(<<"hello">>),
      TextPart(<<>>),
      [type |-> "text"],
      FunctionCallPart(<<"click_mouse">>, JSONstringify(ClickInput)),
      [type |-> "function_call"],
      FunctionCallPart(<<"click_mouse">>, <<"{", "bad json">>),
      ImageUrlPart(<<"https://example/", "a.png">>),
      [type |-> "audio", text |-> <<"hello">>] }

InitParse ==
    /\ pc = "input"
    /\ messages = <<>>
    /\ systemPrompt = <<>>
    /\ vllmMessages = <<>>
    /\ content \in {StringContent(<<>>), StringContent(<<"hello">>), ArrayContent(<<>>)}
    /\ contentBlocks = NoBlocks
    /\ hasSignal = FALSE
    /\ signalAborted = FALSE
    /\ listening = FALSE
    /\ controllerAborted = FALSE
    /\ abortedBeforeReturn = FALSE
    /\ response = NoResponse
    /\ thrown = NoError
    /\ outcome = Pending

AppendPart(part) ==
    /\ pc = "input"
    /\ content.kind = "array"
    /\ Len(content.parts) < MaxParts
    /\ content' = ArrayContent(Append(content.parts, part))
    /\ UNCHANGED <<pc, messages, systemPrompt, vllmMessages, contentBlocks, callVars>>

CallParse ==
    /\ pc = "input"
    /\ contentBlocks' = formatVllmResponse(content)
    /\ pc' = "parsed"
    /\ UNCHANGED <<messages, systemPrompt, vllmMessages, content, callVars>>

NextParse ==
    \/ \E part \in ResponseParts : AppendPart(part)
    \/ CallParse

SpecParse == InitParse /\ [][NextParse]_vars

\* A part that is neither a text part with non-empty text nor a function_call
\* part carrying a function_call object.
Unrecognized(part) ==
    /\ ~(part.type = "text" /\ "text" \in DOMAIN part /\ part.text # <<>>)
    /\ ~(part.type = "function_call" /\ "function_call" \in DOMAIN part)
ValidArguments(part) ==
    (part.type = "function_call" /\ "function_call" \in DOMAIN part)
        => JSONparse(part.function_call.arguments).ok
DegradedAt(i) ==
    /\ contentBlocks.ok
    /\ Len(contentBlocks.blocks) = Len(content.parts)
    /\ contentBlocks.blocks[i]
         = TextContentBlock(JSONstringify(PartJson(content.parts[i])))
    /\ JSONparse(contentBlocks.blocks[i].text) = [ok |-> TRUE, v |-> PartJson(content.parts[i])]

\* C9 as claimed: for every part array, every unrecognized part gives, at its
\* position, a text block holding the JSON text of the part, no error is
\* raised and there is one block per part.
C9_NeverFails ==
    (pc = "parsed" /\ content.kind = "array") =>
        \A i \in 1..Len(content.parts) :
            Unrecognized(content.parts[i]) => DegradedAt(i)

\* C9 as amended: the same for every part array whose function_call parts all
\* carry arguments that are valid JSON.
C9_NeverFailsOnValidArguments ==
    (/\ pc = "parsed"
     /\ content.kind = "array"
     /\ \A k \in 1..Len(content.parts) : ValidArguments(content.parts[k])) =>
        \A i \in 1..Len(content.parts) :
            Unrecognized(content.parts[i]) => DegradedAt(i)

C9_Witness ==
    /\ pc = "parsed"
    /\ content.kind = "array"
    /\ Len(content.parts) = 3
    /\ content.parts[1].type = "function_call"
    /\ "function_call" \in DOMAIN content.parts[1]
    /\ content.parts[2] = TextPart(<<>>)
    /\ content.parts[3].type = "audio"
    /\ contentBlocks.ok
    /\ contentBlocks.blocks[1].type = "tool_use"

(***************************************************************************)
(* Spec: one call of generateMessage (lines 90-175) with the caller's      *)
(* AbortSignal and the remote endpoint as the environment.                 *)
(***************************************************************************)
Histories == {<<>>, <<Message("USER", <<TextContentBlock(<<"hello">>)>>)>>}

Usage == [prompt_tokens |-> 7, completion_tokens |-> 3, total_tokens |-> 10]
NoUsage == [prompt_tokens |-> 0, completion_tokens |-> 0, total_tokens |-> 0]

\* Non-success responses: status, statusText and the body text.
FailedResponses ==
    { [ok |-> FALSE, status |-> st, text |-> body, hasChoices |-> FALSE,
       choices |-> <<>>, hasUsage |-> FALSE, usage |-> NoUsage] :
        st \in {<<"500", " ", "Internal Server Error">>, <<"404", " ", "Not Found">>},
        body \in {<<>>, <<"model not loaded">>,
                  <<"upstream request failed: ", "AbortError", ": timed out">>} }

ResponseContents ==
    { StringContent(<<"hello">>),
      ArrayContent(<<TextPart(<<"hello">>),
                     FunctionCallPart(<<"click_mouse">>, JSONstringify(ClickInput))>>),
      ArrayContent(<<FunctionCallPart(<<"click_mouse">>, <<"{", "bad json">>)>>),
      ArrayContent(<<FunctionCallPart(<<"click_mouse">>, <<"AbortError">>)>>) }

\* Success responses, as response.json() gives them.
OkResponses ==
    { [ok |-> TRUE, status |-> <<"200", " ", "OK">>, text |-> <<>>, hasChoices |-> hc,
       choices |-> ch, hasUsage |-> hu, usage |-> IF hu THEN Usage ELSE NoUsage] :
        hc \in BOOLEAN,
        ch \in {<<>>} \cup {<<[message |-> [role |-> "assistant", content |-> c]]>> :
                                c \in ResponseContents},
        hu \in BOOLEAN }

Responses == FailedResponses \cup {r \in OkResponses : r.hasChoices \/ r.choices = <<>>}

AbortError == [name |-> "AbortError", message |-> <<"This operation was aborted">>]
\* The message of the SyntaxError of JSON.parse: depending on the engine it
\* quotes the rejected text or not.
SyntaxErrors(text) ==
    { [name |-> "SyntaxError", message |-> <<"Unexpected token in JSON at position 0">>],
      [name |-> "SyntaxError",
       message |-> <<"Unexpected token, ", "\"">> \o text \o <<"\"", " is not valid JSON">>] }
ApiError(resp) ==
    [name |-> "Error",
     message |-> <<"VLLM API error: ">> \o resp.status \o <<" - ">> \o resp.text]
NoChoicesError == [name |-> "Error", message |-> <<"No choices found in VLLM response">>]
NetworkError == [name |-> "TypeError", message |-> <<"fetch failed">>]

Includes(text, atom) == \E i \in 1..Len(text) : text[i] = atom

\* The catch block, lines 165-174: what generateMessage rejects with.
Catch(error) ==
    IF error.name = "AbortError" \/ Includes(error.message, "AbortError")
    THEN [Pending EXCEPT !.kind = "interrupt",
                         !.error = [name |-> "BytebotAgentInterrupt", message |-> <<>>]]
    ELSE [Pending EXCEPT !.kind = "error", !.error = error]

Init ==
    /\ pc = "idle"
    /\ messages \in Histories
    /\ systemPrompt \in Prompts
    /\ vllmMessages = <<>>
    /\ content = StringContent(<<>>)
    /\ contentBlocks = NoBlocks
    /\ hasSignal \in BOOLEAN
    /\ signalAborted = FALSE
    /\ listening = FALSE
    /\ controllerAborted = FALSE
    /\ abortedBeforeReturn = FALSE
    /\ response = NoResponse
    /\ thrown = NoError
    /\ outcome = Pending

\* The caller aborts its signal: the 'abort' event fires once and runs the
\* listener of line 133 when it is registered.
SignalAbort ==
    /\ hasSignal
    /\ ~signalAborted
    /\ signalAborted' = TRUE
    /\ controllerAborted' = (controllerAborted \/ listening)
    /\ UNCHANGED <<pc, messages, systemPrompt, vllmMessages, content, contentBlocks,
                   hasSignal, listening, abortedBeforeReturn, response, thrown, outcome>>

\* Lines 97-141, up to the await: the request is built, a fresh controller is
\* created, the listener is added and fetch is started.
StartRequest ==
    /\ pc = "idle"
    /\ vllmMessages' = formatMessagesForVllm(messages, systemPrompt)
    /\ controllerAborted' = FALSE
    /\ listening' = hasSignal
    /\ pc' = "fetching"
    /\ UNCHANGED <<messages, systemPrompt, content, contentBlocks, hasSignal,
                   signalAborted, abortedBeforeReturn, response, thrown, outcome>>

\* fetch resolves with a response; it cannot once its signal is aborted.
FetchResolve(resp) ==
    /\ pc = "fetching"
    /\ ~controllerAborted
    /\ response' = resp
    /\ abortedBeforeReturn' = signalAborted
    /\ pc' = "responded"
    /\ UNCHANGED <<messages, systemPrompt, vllmMessages, content, contentBlocks,
                   hasSignal, signalAborted, listening, controllerAborted, thrown, outcome>>

\* fetch rejects: with AbortError when controller.signal is aborted, with a
\* network failure otherwise; the catch block settles the call.
FetchReject ==
    /\ pc = "fetching"
    /\ thrown' = (IF controllerAborted THEN AbortError ELSE NetworkError)
    /\ outcome' = Catch(thrown')
    /\ abortedBeforeReturn' = signalAborted
    /\ pc' = "done"
    /\ UNCHANGED <<messages, systemPrompt, vllmMessages, content, contentBlocks,
                   hasSignal, signalAborted, listening, controllerAborted, response>>

\* Lines 143-164 and the catch block: the body is read and turned into the
\* result, or an error is thrown and caught.  Reading the body of an aborted
\* request rejects with AbortError.
HandleResponse ==
    /\ pc = "responded"
    /\ pc' = "done"
    /\ LET parsed == formatVllmResponse(response.choices[1].message.content)
       IN  CASE controllerAborted ->
                    /\ thrown' = AbortError
                    /\ outcome' = Catch(thrown')
                    /\ UNCHANGED <<content, contentBlocks>>
             [] ~controllerAborted /\ ~response.ok ->
                    /\ thrown' = ApiError(response)
                    /\ outcome' = Catch(thrown')
                    /\ UNCHANGED <<content, contentBlocks>>
             [] ~controllerAborted /\ response.ok
                  /\ (~response.hasChoices \/ Len(response.choices) = 0) ->
                    /\ thrown' = NoChoicesError
                    /\ outcome' = Catch(thrown')
                    /\ UNCHANGED <<content, contentBlocks>>
             [] OTHER ->
                    /\ content' = response.choices[1].message.content
                    /\ contentBlocks' = parsed
                    /\ IF parsed.ok
                       THEN /\ thrown' = NoError
                            /\ outcome' =
                                [kind |-> "ok", error |-> NoError,
                                 contentBlocks |-> parsed.blocks,
                                 tokenUsage |->
                                    [inputTokens |-> response.usage.prompt_tokens,
                                     outputTokens |-> response.usage.completion_tokens,
                                     totalTokens |-> response.usage.total_tokens]]
                       ELSE /\ thrown' \in SyntaxErrors(parsed.badArguments)
                            /\ outcome' = Catch(thrown')
    /\ UNCHANGED <<messages, systemPrompt, vllmMessages, hasSignal, signalAborted,
                   listening, controllerAborted, abortedBeforeReturn, response>>

Next ==
    \/ SignalAbort
    \/ StartRequest
    \/ \E resp \in Responses : FetchResolve(resp)
    \/ FetchReject
    \/ HandleResponse

Spec == Init /\ [][Next]_vars

\* C1: a call given a signal that is aborted before fetch returns, also one
\* aborted before the call, fails with BytebotAgentInterrupt.
C1_AbortInterrupts ==
    (pc = "done" /\ hasSignal /\ abortedBeforeReturn) => outcome.kind = "interrupt"

\* C2: when the signal is never aborted, the error thrown for a non-success
\* status, for a response without choices or for function_call arguments
\* that are not JSON is the error the call fails with, whatever the body
\* text and the arguments string.
C2_FailuresPropagate ==
    (pc = "done" /\ ~signalAborted /\ thrown.name \in {"Error", "SyntaxError"}) =>
        outcome.kind = "error" /\ outcome.error = thrown

====
